---- MODULE Spec2Model ----
(***************************************************************************)
(* get-latest-version.py: the update check of one patched package.  One    *)
(* run resolves its arguments, asks the os-patches PPA for the patched     *)
(* version, asks the Ubuntu archive pocket by pocket for the upstream      *)
(* version and, for a pocket whose version is newer, opens an issue,       *)
(* downloads the source, commits it on a new branch, pushes the branch and *)
(* opens a pull request.  Launchpad, GitHub and git are the environment:   *)
(* every call into them either returns or raises.                          *)
(***************************************************************************)
EXTENDS Integers, Sequences, FiniteSets, TLC

(***************************************************************************)
(* Bounds of the model.                                                    *)
(***************************************************************************)
\* Issue and pull-request numbers handed out by the tracker stop here.
MaxNumber == 3
\* Open issues of other users that carry one of the workflow's titles.
MaxForeign == 1
\* Members of a downloaded archive.
MaxMembers == 4

(***************************************************************************)
(* Values of the program and of its environment.                           *)
(***************************************************************************)
DEFAULT_SERIES_NAME == "noble"
SCRIPT == "get-latest-version.py"
BOT == "github-actions[bot]"
OTHER_USER == "octocat"
MASTER == "master"
Pockets == <<"Release", "Security", "Updates">>

\* Version strings, as the sequences of their characters.
V_2_9 == <<"2", ".", "9", "-", "1">>
V_2_10 == <<"2", ".", "1", "0", "-", "1">>
V_E1 == <<"1", ":", "0", ".", "1", "-", "1">>
Versions == {V_2_9, V_2_10, V_E1}

\* Versions of the records getPublishedSources returns, in the order of the
\* collection: for the os-patches PPA and for one pocket of the Ubuntu archive.
PatchedRecords == {<<>>, <<V_2_9>>, <<V_2_10, V_2_9>>, <<V_E1>>}
UpstreamRecords == {<<>>, <<V_2_10>>, <<V_E1, V_2_9>>}

\* sys.argv of a run: the script, then up to three arguments.
Series == {"noble", "jammy"}
Argvs == {<<SCRIPT>>, <<SCRIPT, "foo">>, <<SCRIPT, "foo", "">>}

(***************************************************************************)
(* apt_pkg.version_compare: the Debian version ordering.                   *)
(***************************************************************************)
Digits == {"0", "1", "2", "3", "4", "5", "6", "7", "8", "9"}
DigitVal(c) ==
    CASE c = "0" -> 0 [] c = "1" -> 1 [] c = "2" -> 2 [] c = "3" -> 3
      [] c = "4" -> 4 [] c = "5" -> 5 [] c = "6" -> 6 [] c = "7" -> 7
      [] c = "8" -> 8 [] c = "9" -> 9

\* The code of the characters that occur in the versions of the model.
Ascii(c) ==
    CASE c = "+" -> 43 [] c = "-" -> 45 [] c = "." -> 46 [] c = ":" -> 58
      [] c = "b" -> 98 [] c = "c" -> 99 [] c = "r" -> 114 [] c = "u" -> 117
      [] c = "~" -> 126
      [] OTHER -> 63

Code(c) == IF c \in Digits THEN 48 + DigitVal(c) ELSE Ascii(c)

IsAlpha(c) == c \in {"b", "c", "r", "u"}

\* order(): a digit (and the end of the string) weighs 0, a letter its code,
\* '~' less than anything, any other character its code plus 256.
Order(s) ==
    IF s = <<>> THEN 0
    ELSE IF Head(s) \in Digits THEN 0
    ELSE IF IsAlpha(Head(s)) THEN Ascii(Head(s))
    ELSE IF Head(s) = "~" THEN -1
    ELSE Ascii(Head(s)) + 256

Sign(n) == IF n > 0 THEN 1 ELSE IF n < 0 THEN -1 ELSE 0

RECURSIVE DigitRun(_)
DigitRun(s) ==
    IF s # <<>> /\ Head(s) \in Digits THEN <<Head(s)>> \o DigitRun(Tail(s))
    ELSE <<>>

RECURSIVE NumVal(_, _)
NumVal(s, acc) ==
    IF s = <<>> THEN acc ELSE NumVal(Tail(s), acc * 10 + DigitVal(Head(s)))

Drop(s, n) == SubSeq(s, n + 1, Len(s))

\* CmpFragment: non-digit runs by Order, character by character, then digit
\* runs by value, alternating until both fragments are used up.
RECURSIVE CmpFragment(_, _)
CmpFragment(a, b) ==
    IF a = <<>> /\ b = <<>> THEN 0
    ELSE IF (a # <<>> /\ Head(a) \notin Digits) \/ (b # <<>> /\ Head(b) \notin Digits)
    THEN IF Order(a) # Order(b) THEN Sign(Order(a) - Order(b))
         ELSE CmpFragment(IF a = <<>> THEN a ELSE Tail(a),
                          IF b = <<>> THEN b ELSE Tail(b))
    ELSE LET da == DigitRun(a)
             db == DigitRun(b)
         IN  IF NumVal(da, 0) # NumVal(db, 0)
             THEN Sign(NumVal(da, 0) - NumVal(db, 0))
             ELSE CmpFragment(Drop(a, Len(da)), Drop(b, Len(db)))

\* Position of the first ':' and of the last '-', 0 when there is none.
FirstColon(v) ==
    IF \E i \in 1..Len(v) : v[i] = ":"
    THEN CHOOSE i \in 1..Len(v) : v[i] = ":" /\ \A j \in 1..(i - 1) : v[j] # ":"
    ELSE 0
LastHyphen(v) ==
    IF \E i \in 1..Len(v) : v[i] = "-"
    THEN CHOOSE i \in 1..Len(v) : v[i] = "-" /\ \A j \in (i + 1)..Len(v) : v[j] # "-"
    ELSE 0

Epoch(v) == SubSeq(v, 1, FirstColon(v) - 1)
NoEpoch(v) == Drop(v, FirstColon(v))
Upstream(v) ==
    LET w == NoEpoch(v)
    IN  IF LastHyphen(w) = 0 THEN w ELSE SubSeq(w, 1, LastHyphen(w) - 1)
\* A version without a revision compares like one with the revision 0.
Revision(v) ==
    LET w == NoEpoch(v)
    IN  IF LastHyphen(w) = 0 THEN <<"0">> ELSE Drop(w, LastHyphen(w))

\* The comparison of the two strings character by character, as a < b on
\* Python strings does it.
LexicalCompare(a, b) ==
    LET n == IF Len(a) < Len(b) THEN Len(a) ELSE Len(b)
        D == {i \in 1..n : a[i] # b[i]}
    IN  IF D = {} THEN Sign(Len(a) - Len(b))
        ELSE LET i == CHOOSE k \in D : \A m \in D : k <= m
             IN  Sign(Code(a[i]) - Code(b[i]))

version_compare(a, b) ==
    IF CmpFragment(Epoch(a), Epoch(b)) # 0 THEN CmpFragment(Epoch(a), Epoch(b))
    ELSE IF CmpFragment(Upstream(a), Upstream(b)) # 0
    THEN CmpFragment(Upstream(a), Upstream(b))
    ELSE CmpFragment(Revision(a), Revision(b))

(***************************************************************************)
(* State.                                                                  *)
(***************************************************************************)
VARIABLES
    \* Launchpad: the published sources of the package, by series (and pocket).
    patches_archive, ubuntu_archive,
    \* GitHub: the bag of open issues, each a [title, login].
    issues,
    \* The git checkout: current branch, local branches, branches on origin,
    \* and the downloaded files lying in the working directory.
    branch, local_branches, remote_branches, files,
    \* The run: where it is, how it ended, and the script's variables.
    pc, status, sys_argv, component_name, series_name, upstream_series_name,
    patched_version, pocket, pocket_version, issue_title, issue, filename,
    \* History: the calls of the run that returned, in order, and the names of
    \* the previous run when it ended without failure and nothing changed since.
    trace, prev,
    \* Whether one of the git config commands of the run returned non-zero.
    config_failed,
    \* The archive that was downloaded: the members tarfile lists, in order, or
    \* NONE when no archive lies in the working directory; and the paths the
    \* extraction wrote, each with the member it came from.
    members, extracted,
    \* The job that runs at the same time on another runner, while this one is
    \* the one taking steps: its variables, or NONE when there is one job only.
    other

launchpad_vars == <<patches_archive, ubuntu_archive>>
git_vars == <<branch, local_branches, remote_branches, files>>
name_vars == <<sys_argv, component_name, series_name, upstream_series_name>>
loop_vars == <<patched_version, pocket, pocket_version, issue_title, issue, filename>>
tar_vars == <<members, extracted>>
\* What most steps leave alone: Launchpad, the archive and the other job.
rest_vars == <<launchpad_vars, tar_vars, other>>
vars ==
    <<launchpad_vars, issues, git_vars, pc, status, name_vars, loop_vars, trace, prev,
      config_failed, tar_vars, other>>

NONE == <<>>
Range(f) == {f[i] : i \in DOMAIN f}

(***************************************************************************)
(* Strings the script formats.                                             *)
(***************************************************************************)
NotFoundTitle(c) == "Package " \o c \o " not found in os-patches PPA"
NewVersionTitle(c, us) == "New version of " \o c \o " available [" \o us \o "]"
BaseBranch(c, us) == c \o "-" \o us
NewBranch(c, us) == "bot/update/" \o c \o "-" \o us
CommitMessage(c, v) == <<"Update to ", c, " ">> \o v
DscUrl(c, v) == <<"/+files/", c, "_">> \o v \o <<".dsc">>
Filename(c, v) == <<c, "_">> \o Upstream(v) \o <<".orig.tar.xz">>
PackageUrl(c, v, f) == <<"+sourcefiles/", c, "/">> \o v \o <<"/">> \o f

Call(op, args) == [op |-> op, args |-> args]
Ops(t) == {t[i].op : i \in 1..Len(t)}

(***************************************************************************)
(* The tracker.                                                            *)
(***************************************************************************)
Issue(title, login) == [title |-> title, login |-> login]
Count(bag, x) == IF x \in DOMAIN bag THEN bag[x] ELSE 0
AddIssue(bag, x) ==
    [y \in DOMAIN bag \cup {x} |-> IF y = x THEN Count(bag, x) + 1 ELSE bag[y]]
RemoveIssue(bag, x) ==
    [y \in {z \in DOMAIN bag : z # x \/ bag[z] > 1} |->
        IF y = x THEN bag[x] - 1 ELSE bag[y]]
EmptyIssues == [x \in {} |-> 0]

\* github_issue_exists without the author check, and with a login no issue
\* carries.
AnyAuthorExists(title) == \E i \in DOMAIN issues : i.title = title
WrongLoginExists(title) ==
    \E i \in DOMAIN issues : i.title = title /\ i.login = "github-actions"

github_issue_exists(title) ==
    \E i \in DOMAIN issues : i.title = title /\ i.login = BOT

(***************************************************************************)
(* extract_archive: the members of the tar archive and where they go.      *)
(***************************************************************************)
\* A member tarfile lists: its name, as the sequence of its characters, and
\* whether it is a directory.
Member(name, isdir) == [name |-> name, isdir |-> isdir]

\* The members an archive of the model is made of, in the order tar writes
\* them: d/, d/a, d/b/, d/b/c, e/, e/c, the file f, the file d.t and the file
\* dx/y, whose directory dx has no entry of its own.
MemberPool ==
    <<Member(<<"d">>, TRUE),
      Member(<<"d", "/", "a">>, FALSE),
      Member(<<"d", "/", "b">>, TRUE),
      Member(<<"d", "/", "b", "/", "c">>, FALSE),
      Member(<<"e">>, TRUE),
      Member(<<"e", "/", "c">>, FALSE),
      Member(<<"f">>, FALSE),
      Member(<<"d", ".", "t">>, FALSE),
      Member(<<"d", "x", "/", "y">>, FALSE)>>

\* The members of the pool at the positions S, in the order of the pool.
Nth(S, i) == CHOOSE k \in S : Cardinality({j \in S : j <= k}) = i
Pick(S) == [i \in 1..Cardinality(S) |-> MemberPool[Nth(S, i)]]
Archives ==
    {Pick(S) : S \in {T \in SUBSET (1..Len(MemberPool)) : Cardinality(T) <= MaxMembers}}

\* The archive of a source package: one directory and what lies in it.
SourceArchive == Pick({1, 2, 3, 4})

\* str.strip('/'), str.startswith(prefix).
RECURSIVE LStrip(_)
LStrip(s) == IF s # <<>> /\ Head(s) = "/" THEN LStrip(Tail(s)) ELSE s
RECURSIVE RStrip(_)
RStrip(s) ==
    IF s # <<>> /\ s[Len(s)] = "/" THEN RStrip(SubSeq(s, 1, Len(s) - 1)) ELSE s
StripSlashes(s) == RStrip(LStrip(s))
StartsWith(s, prefix) ==
    Len(prefix) <= Len(s) /\ SubSeq(s, 1, Len(prefix)) = prefix

\* Line 86: the members that are directories without a '/' in their name.
IsTopLevelDir(member) ==
    member.isdir /\ \A i \in 1..Len(StripSlashes(member.name)) :
                       StripSlashes(member.name)[i] # "/"
top_level_dirs(ms) == SelectSeq(ms, IsTopLevelDir)

\* A path written below extract_to, and the member it was written from.
Extracted(path, member) == [path |-> path, member |-> member.name]

\* Line 94 without the strip: the '/' after the directory name stays.
KeepsSlash(name, top_level_dir_name) == Drop(name, Len(top_level_dir_name))
\* Line 94: the name of a member with the directory name cut off.
StrippedName(name, top_level_dir_name) ==
    StripSlashes(Drop(name, Len(top_level_dir_name)))

\* Lines 84-98: what the extraction writes.
extract_archive(ms) ==
    IF Len(top_level_dirs(ms)) = 1
    THEN LET top_level_dir_name == top_level_dirs(ms)[1].name
         IN  {Extracted(StrippedName(m.name, top_level_dir_name), m) :
                 m \in {x \in Range(ms) : StartsWith(x.name, top_level_dir_name)}}
    ELSE {Extracted(m.name, m) : m \in Range(ms)}

(***************************************************************************)
(* Argument processing.                                                    *)
(***************************************************************************)
MissingPackageName(argv) == Len(argv) < 2

SeriesName(argv) ==
    LET given == IF Len(argv) < 3 THEN DEFAULT_SERIES_NAME ELSE argv[3]
    IN  IF given = "" THEN DEFAULT_SERIES_NAME ELSE given

\* The upstream series falling back on the fixed default, not on the target.
UpstreamDefaultsToFixed(argv) ==
    LET given == IF Len(argv) < 4 THEN DEFAULT_SERIES_NAME ELSE argv[4]
    IN  IF given = "" THEN DEFAULT_SERIES_NAME ELSE given

UpstreamSeriesName(argv) ==
    LET given == IF Len(argv) < 4 THEN SeriesName(argv) ELSE argv[4]
    IN  IF given = "" THEN SeriesName(argv) ELSE given

(***************************************************************************)
(* Calls that may fail.                                                    *)
(***************************************************************************)
ReturnCodes == {0, 1}

\* subprocess.run(..., check=check) raises CalledProcessError.
ChecksNothing(check, returncode) == FALSE
ChecksAlways(check, returncode) == returncode # 0
SubprocessRaises(check, returncode) == check /\ returncode # 0

\* An exception nobody catches ends the run.
Raise ==
    /\ pc' = "exit"
    /\ status' = "error"

\* A Launchpad, GitHub or urllib call that raises.
CallRaises(step) ==
    /\ pc = step
    /\ Raise
    /\ trace' = Append(trace, Call("raise", <<step>>))
    /\ UNCHANGED <<rest_vars, issues, git_vars, name_vars, loop_vars, prev,
                   config_failed>>

(***************************************************************************)
(* The pocket loop.                                                        *)
(***************************************************************************)
\* The index of the pocket the for loop takes up after pocket p, whose query
\* returned n records; 0 when the loop is over.
StopsAtFirstRecord(p, n) == IF n > 0 \/ p >= Len(Pockets) THEN 0 ELSE p + 1
NextPocketIndex(p, n) == IF p < Len(Pockets) THEN p + 1 ELSE 0

\* upstream_sources[0], get_patched_sources()[0]: the record that is used.
LastRecord(records) == records[Len(records)]
FirstRecord(records) == records[1]

\* Line 139: the update is for a version strictly greater than the patched one.
IsNotOlder(pv, patched) == version_compare(pv, patched) >= 0
IsNewer(pv, patched) == version_compare(pv, patched) > 0

Continue(n) ==
    IF NextPocketIndex(pocket, n) = 0
    THEN /\ pc' = "exit"
         /\ status' = "ok"
         /\ pocket' = pocket
    ELSE /\ pc' = "get_upstream_sources"
         /\ status' = status
         /\ pocket' = NextPocketIndex(pocket, n)

(***************************************************************************)
(* A run, statement by statement.                                          *)
(***************************************************************************)
Init ==
    /\ patches_archive \in
          {[s \in Series |-> IF s = DEFAULT_SERIES_NAME THEN r ELSE <<>>] :
              r \in PatchedRecords}
    /\ ubuntu_archive \in
          {[s \in Series |-> [p \in Range(Pockets) |->
               IF s = DEFAULT_SERIES_NAME THEN u[p] ELSE <<>>]] :
              u \in [Range(Pockets) -> UpstreamRecords]}
    /\ issues = EmptyIssues
    /\ branch = MASTER
    /\ local_branches = {MASTER}
    /\ remote_branches = {MASTER} \cup {BaseBranch("foo", s) : s \in Series}
    /\ files = {}
    /\ pc = "idle"
    /\ status = ""
    /\ sys_argv = <<>>
    /\ component_name = ""
    /\ series_name = ""
    /\ upstream_series_name = ""
    /\ patched_version = NONE
    /\ pocket = 0
    /\ pocket_version = NONE
    /\ issue_title = ""
    /\ issue = 0
    /\ filename = NONE
    /\ trace = <<>>
    /\ prev = NONE
    /\ config_failed = FALSE
    /\ members = NONE
    /\ extracted = {}
    /\ other = NONE

\* The arguments read without the check of line 17.
StartWithoutCheck(argv) ==
    /\ pc = "idle"
    /\ sys_argv' = argv
    /\ pc' = "launchpad"
    /\ trace' = <<>>
    /\ status' = "running"
    /\ component_name' = IF Len(argv) < 2 THEN "" ELSE argv[2]
    /\ series_name' = SeriesName(argv)
    /\ upstream_series_name' = UpstreamSeriesName(argv)
    /\ UNCHANGED <<rest_vars, issues, git_vars, loop_vars, prev, config_failed>>

\* Lines 16-36: the process starts and reads its arguments.
Start(argv) ==
    /\ pc = "idle"
    /\ sys_argv' = argv
    /\ IF MissingPackageName(argv)
       THEN /\ Raise
            /\ trace' = <<Call("raise", <<"argv">>)>>
            /\ UNCHANGED <<component_name, series_name, upstream_series_name>>
       ELSE /\ pc' = "launchpad"
            /\ trace' = <<>>
            /\ status' = "running"
            /\ component_name' = argv[2]
            /\ series_name' = SeriesName(argv)
            /\ upstream_series_name' = UpstreamSeriesName(argv)
    /\ UNCHANGED <<rest_vars, issues, git_vars, loop_vars, prev, config_failed>>

\* Lines 38-55: apt, the Launchpad login, the archives and the two series.
InitLaunchpad ==
    /\ pc = "launchpad"
    /\ \/ /\ pc' = "github"
          /\ trace' = Append(trace, Call("launchpad", <<series_name, upstream_series_name>>))
          /\ UNCHANGED <<rest_vars, issues, git_vars, status, name_vars, loop_vars,
                         prev, config_failed>>
       \/ CallRaises("launchpad")

\* Lines 57-61: the token, the repository.
InitGithub ==
    /\ pc = "github"
    /\ \/ /\ pc' = "git_config_1"
          /\ trace' = Append(trace, Call("github", <<>>))
          /\ UNCHANGED <<rest_vars, issues, git_vars, status, name_vars, loop_vars,
                         prev, config_failed>>
       \/ CallRaises("github")

\* Lines 63-65: user.email, user.name, safe.directory, each with check=False.
ConfigPc(k) == IF k = 1 THEN "git_config_1" ELSE IF k = 2 THEN "git_config_2" ELSE "git_config_3"
GitConfig(k) ==
    /\ pc = ConfigPc(k)
    /\ \E rc \in ReturnCodes :
          /\ trace' = Append(trace, Call("git_config", <<k>>))
          /\ config_failed' = (config_failed \/ rc # 0)
          /\ IF SubprocessRaises(FALSE, rc)
             THEN Raise
             ELSE /\ pc' = IF k < 3 THEN ConfigPc(k + 1) ELSE "get_patched_sources"
                  /\ status' = status
    /\ UNCHANGED <<rest_vars, issues, git_vars, name_vars, loop_vars, prev>>

\* Line 122: the first query of the PPA; no record selects the not-found path.
GetPatchedSources ==
    /\ pc = "get_patched_sources"
    /\ \/ /\ trace' = Append(trace,
                 Call("get_patched_sources", <<component_name, series_name>>))
          /\ IF Len(patches_archive[series_name]) = 0
             THEN /\ issue_title' = NotFoundTitle(component_name)
                  /\ pc' = "not_found_exists"
             ELSE /\ issue_title' = issue_title
                  /\ pc' = "patched_version"
          /\ UNCHANGED <<rest_vars, issues, git_vars, status, name_vars,
                         patched_version, pocket, pocket_version, issue, filename,
                         prev, config_failed>>
       \/ CallRaises("get_patched_sources")

\* Line 124, and sys.exit(0) of line 130 when the issue is there already.
NotFoundExists ==
    /\ pc = "not_found_exists"
    /\ \/ /\ trace' = Append(trace,
                 Call("get_issues", <<issue_title, github_issue_exists(issue_title)>>))
          /\ IF github_issue_exists(issue_title)
             THEN /\ pc' = "exit"
                  /\ status' = "ok"
             ELSE /\ pc' = "not_found_create"
                  /\ status' = status
          /\ UNCHANGED <<rest_vars, issues, git_vars, name_vars, loop_vars, prev,
                         config_failed>>
       \/ CallRaises("not_found_exists")

\* Lines 125-130: the issue, the status line, sys.exit(0).
NotFoundCreate ==
    /\ pc = "not_found_create"
    /\ \/ \E n \in 1..MaxNumber :
             /\ issues' = AddIssue(issues, Issue(issue_title, BOT))
             /\ issue' = n
             /\ trace' = Append(trace, Call("create_issue", <<issue_title, n>>))
             /\ pc' = "exit"
             /\ status' = "ok"
             /\ UNCHANGED <<rest_vars, git_vars, name_vars, patched_version, pocket,
                            pocket_version, issue_title, filename, prev, config_failed>>
       \/ CallRaises("not_found_create")

\* Line 132: the second query of the PPA; the version of its first record.
PatchedVersion ==
    /\ pc = "patched_version"
    /\ \/ /\ Len(patches_archive[series_name]) > 0
          /\ patched_version' = FirstRecord(patches_archive[series_name])
          /\ trace' = Append(trace,
                 Call("get_patched_sources", <<component_name, series_name>>))
          /\ pocket' = 1
          /\ pc' = "get_upstream_sources"
          /\ UNCHANGED <<rest_vars, issues, git_vars, status, name_vars,
                         pocket_version, issue_title, issue, filename, prev,
                         config_failed>>
       \/ CallRaises("patched_version")

\* The query of a pocket without the test of line 137: upstream_sources[0]
\* of an empty result is an IndexError, which ends the run.
GetUpstreamSourcesUnguarded ==
    /\ pc = "get_upstream_sources"
    /\ LET upstream_sources == ubuntu_archive[upstream_series_name][Pockets[pocket]]
       IN  /\ trace' = Append(trace,
                  Call("get_upstream_sources",
                       <<component_name, upstream_series_name, Pockets[pocket]>>))
           /\ IF Len(upstream_sources) = 0
              THEN /\ Raise
                   /\ UNCHANGED <<pocket, pocket_version, issue_title>>
              ELSE /\ pocket_version' = FirstRecord(upstream_sources)
                   /\ IF IsNewer(FirstRecord(upstream_sources), patched_version)
                      THEN /\ issue_title' =
                                 NewVersionTitle(component_name, upstream_series_name)
                           /\ pc' = "new_version_exists"
                           /\ UNCHANGED <<status, pocket>>
                      ELSE /\ issue_title' = issue_title
                           /\ Continue(Len(upstream_sources))
           /\ UNCHANGED <<rest_vars, issues, git_vars, name_vars, patched_version,
                          issue, filename, prev, config_failed>>

\* Lines 135-140: the query of one pocket and the comparison of its first
\* record with the patched version.
GetUpstreamSources ==
    /\ pc = "get_upstream_sources"
    /\ \/ LET upstream_sources == ubuntu_archive[upstream_series_name][Pockets[pocket]]
          IN  /\ trace' = Append(trace,
                     Call("get_upstream_sources",
                          <<component_name, upstream_series_name, Pockets[pocket]>>))
              /\ IF Len(upstream_sources) > 0
                 THEN /\ pocket_version' = FirstRecord(upstream_sources)
                      /\ IF IsNewer(FirstRecord(upstream_sources), patched_version)
                         THEN /\ issue_title' =
                                    NewVersionTitle(component_name, upstream_series_name)
                              /\ pc' = "new_version_exists"
                              /\ UNCHANGED <<status, pocket>>
                         ELSE /\ issue_title' = issue_title
                              /\ Continue(Len(upstream_sources))
                 ELSE /\ UNCHANGED <<pocket_version, issue_title>>
                      /\ Continue(0)
              /\ UNCHANGED <<rest_vars, issues, git_vars, name_vars, patched_version,
                             issue, filename, prev, config_failed>>
       \/ CallRaises("get_upstream_sources")

\* Line 141: an open issue of the bot with this title skips the update.
NewVersionExists ==
    /\ pc = "new_version_exists"
    /\ \/ /\ trace' = Append(trace,
                 Call("get_issues", <<issue_title, github_issue_exists(issue_title)>>))
          /\ IF github_issue_exists(issue_title)
             THEN Continue(1)
             ELSE /\ pc' = "new_version_create"
                  /\ UNCHANGED <<status, pocket>>
          /\ UNCHANGED <<rest_vars, issues, git_vars, name_vars, patched_version,
                         pocket_version, issue_title, issue, filename, prev, config_failed>>
       \/ CallRaises("new_version_exists")

\* The issue made under a lock: the open issues are looked at again in the
\* same step, and an issue that has appeared since line 141 skips the update.
NewVersionCreateLocked ==
    /\ pc = "new_version_create"
    /\ IF github_issue_exists(issue_title)
       THEN /\ Continue(1)
            /\ trace' = Append(trace, Call("get_issues", <<issue_title, TRUE>>))
            /\ UNCHANGED <<rest_vars, issues, git_vars, name_vars, patched_version,
                           pocket_version, issue_title, issue, filename, prev,
                           config_failed>>
       ELSE \E n \in 1..MaxNumber :
               /\ issues' = AddIssue(issues, Issue(issue_title, BOT))
               /\ issue' = n
               /\ trace' = Append(trace,
                      Call("create_issue",
                           <<issue_title, n, pocket_version, patched_version>>))
               /\ pc' = "urlopen_dsc"
               /\ UNCHANGED <<rest_vars, git_vars, status, name_vars, patched_version,
                              pocket, pocket_version, issue_title, filename, prev,
                              config_failed>>

\* Lines 142-150: the new-version issue.
NewVersionCreate ==
    /\ pc = "new_version_create"
    /\ \/ \E n \in 1..MaxNumber :
             /\ issues' = AddIssue(issues, Issue(issue_title, BOT))
             /\ issue' = n
             /\ trace' = Append(trace,
                    Call("create_issue", <<issue_title, n, pocket_version, patched_version>>))
             /\ pc' = "urlopen_dsc"
             /\ UNCHANGED <<rest_vars, git_vars, status, name_vars, patched_version,
                            pocket, pocket_version, issue_title, filename, prev,
                            config_failed>>
       \/ CallRaises("new_version_create")

\* Lines 151-160: the .dsc file and the name of the first file it lists.
UrlopenDsc ==
    /\ pc = "urlopen_dsc"
    /\ \/ /\ filename' = Filename(component_name, pocket_version)
          /\ trace' = Append(trace,
                 Call("urlopen", DscUrl(component_name, pocket_version)))
          /\ pc' = "download_file"
          /\ UNCHANGED <<rest_vars, issues, git_vars, status, name_vars,
                         patched_version, pocket, pocket_version, issue_title, issue,
                         prev, config_failed>>
       \/ CallRaises("urlopen_dsc")

\* Lines 162-164: the source archive, written to the working directory.
DownloadFile ==
    /\ pc = "download_file"
    /\ \/ /\ files' = files \cup {filename}
          /\ members' = SourceArchive
          /\ trace' = Append(trace,
                 Call("download_file", PackageUrl(component_name, pocket_version, filename)))
          /\ pc' = "git_fetch"
          /\ UNCHANGED <<launchpad_vars, other, extracted, issues, branch, local_branches,
                         remote_branches, status, name_vars, loop_vars, prev,
                         config_failed>>
       \/ CallRaises("download_file")

\* Line 169: git fetch --all.
GitFetch ==
    /\ pc = "git_fetch"
    /\ \E rc \in ReturnCodes :
          /\ trace' = Append(trace, Call("git_fetch", <<rc>>))
          /\ IF SubprocessRaises(TRUE, rc)
             THEN Raise
             ELSE /\ pc' = "git_switch_base"
                  /\ status' = status
    /\ UNCHANGED <<rest_vars, issues, git_vars, name_vars, loop_vars, prev,
                   config_failed>>

\* Line 170: git switch <package>-<upstream series>.
GitSwitchBase ==
    /\ pc = "git_switch_base"
    /\ \E rc \in ReturnCodes :
          LET base_branch == BaseBranch(component_name, upstream_series_name)
          IN  /\ trace' = Append(trace, Call("git_switch", <<base_branch, rc>>))
              /\ IF SubprocessRaises(TRUE, rc)
                 THEN Raise
                 ELSE /\ pc' = "git_checkout_new"
                      /\ status' = status
              /\ IF rc = 0
                 THEN /\ branch' = base_branch
                      /\ local_branches' = local_branches \cup {base_branch}
                 ELSE UNCHANGED <<branch, local_branches>>
    /\ UNCHANGED <<rest_vars, issues, remote_branches, files, name_vars, loop_vars,
                   prev, config_failed>>

\* Line 172: git checkout -b bot/update/<package>-<upstream series>; git
\* refuses to create a branch that exists.
GitCheckoutNew ==
    /\ pc = "git_checkout_new"
    /\ LET new_branch == NewBranch(component_name, upstream_series_name)
       IN  \E rc \in IF new_branch \in local_branches THEN {1} ELSE ReturnCodes :
              /\ trace' = Append(trace, Call("git_checkout_b", <<new_branch, rc>>))
              /\ IF SubprocessRaises(TRUE, rc)
                 THEN Raise
                 ELSE /\ pc' = "extract_archive"
                      /\ status' = status
              /\ IF rc = 0
                 THEN /\ branch' = new_branch
                      /\ local_branches' = local_branches \cup {new_branch}
                 ELSE UNCHANGED <<branch, local_branches>>
    /\ UNCHANGED <<rest_vars, issues, remote_branches, files, name_vars, loop_vars,
                   prev, config_failed>>

\* Line 173: the archive is unpacked over the tree and the file removed.
ExtractArchive ==
    /\ pc = "extract_archive"
    /\ \/ /\ extracted' = extracted \cup extract_archive(members)
          /\ files' = files \ {filename}
          /\ trace' = Append(trace, Call("extract_archive", filename))
          /\ pc' = "git_add"
          /\ UNCHANGED <<launchpad_vars, other, members, issues, branch, local_branches,
                         remote_branches, status, name_vars, loop_vars, prev,
                         config_failed>>
       \/ CallRaises("extract_archive")

\* Line 175: git add .
GitAdd ==
    /\ pc = "git_add"
    /\ \E rc \in ReturnCodes :
          /\ trace' = Append(trace, Call("git_add", <<rc>>))
          /\ IF SubprocessRaises(TRUE, rc)
             THEN Raise
             ELSE /\ pc' = "git_commit"
                  /\ status' = status
    /\ UNCHANGED <<rest_vars, issues, git_vars, name_vars, loop_vars, prev,
                   config_failed>>

\* Line 177: git commit -m "Update to <package> <version>".
GitCommit ==
    /\ pc = "git_commit"
    /\ \E rc \in ReturnCodes :
          /\ trace' = Append(trace,
                 Call("git_commit", <<CommitMessage(component_name, pocket_version), rc>>))
          /\ IF SubprocessRaises(TRUE, rc)
             THEN Raise
             ELSE /\ pc' = "git_push"
                  /\ status' = status
    /\ UNCHANGED <<rest_vars, issues, git_vars, name_vars, loop_vars, prev,
                   config_failed>>

\* The push with check=False: its failure is not looked at.
GitPushUnchecked ==
    /\ pc = "git_push"
    /\ \E rc \in ReturnCodes :
          LET new_branch == NewBranch(component_name, upstream_series_name)
          IN  /\ trace' = Append(trace, Call("git_push", <<new_branch, rc>>))
              /\ pc' = "create_pull"
              /\ status' = status
              /\ IF rc = 0
                 THEN remote_branches' = remote_branches \cup {new_branch}
                 ELSE UNCHANGED remote_branches
    /\ UNCHANGED <<rest_vars, issues, branch, local_branches, files, name_vars,
                   loop_vars, prev, config_failed>>

\* Line 179: git push origin <new branch>.
GitPush ==
    /\ pc = "git_push"
    /\ \E rc \in ReturnCodes :
          LET new_branch == NewBranch(component_name, upstream_series_name)
          IN  /\ trace' = Append(trace, Call("git_push", <<new_branch, rc>>))
              /\ IF SubprocessRaises(TRUE, rc)
                 THEN Raise
                 ELSE /\ pc' = "create_pull"
                      /\ status' = status
              /\ IF rc = 0
                 THEN remote_branches' = remote_branches \cup {new_branch}
                 ELSE UNCHANGED remote_branches
    /\ UNCHANGED <<rest_vars, issues, branch, local_branches, files, name_vars,
                   loop_vars, prev, config_failed>>

\* Lines 180-186: the pull request, whose body names the issue of this run.
CreatePull ==
    /\ pc = "create_pull"
    /\ \/ /\ trace' = Append(trace,
                 Call("create_pull",
                      [base |-> BaseBranch(component_name, upstream_series_name),
                       head |-> NewBranch(component_name, upstream_series_name),
                       version |-> pocket_version,
                       fixes |-> issue]))
          /\ pc' = "git_switch_master"
          /\ UNCHANGED <<rest_vars, issues, git_vars, status, name_vars, loop_vars,
                         prev, config_failed>>
       \/ CallRaises("create_pull")

\* Line 187: git switch master, the last statement of the loop body.
GitSwitchMaster ==
    /\ pc = "git_switch_master"
    /\ \E rc \in ReturnCodes :
          /\ trace' = Append(trace, Call("git_switch", <<MASTER, rc>>))
          /\ IF SubprocessRaises(TRUE, rc)
             THEN /\ Raise
                  /\ UNCHANGED pocket
             ELSE Continue(1)
          /\ IF rc = 0
             THEN branch' = MASTER
             ELSE UNCHANGED branch
    /\ UNCHANGED <<rest_vars, issues, local_branches, remote_branches, files,
                   name_vars, patched_version, pocket_version, issue_title, issue,
                   filename, prev, config_failed>>

\* The process is gone and the job's checkout with it: the next job starts in
\* a fresh checkout of master.  What stays is what the run did to GitHub and
\* to origin.
Finish ==
    /\ pc = "exit"
    /\ pc' = "idle"
    /\ prev' = IF status = "ok"
               THEN <<component_name, series_name, upstream_series_name>>
               ELSE NONE
    /\ status' = ""
    /\ sys_argv' = <<>>
    /\ component_name' = ""
    /\ series_name' = ""
    /\ upstream_series_name' = ""
    /\ patched_version' = NONE
    /\ pocket' = 0
    /\ pocket_version' = NONE
    /\ issue_title' = ""
    /\ issue' = 0
    /\ filename' = NONE
    /\ trace' = <<>>
    /\ config_failed' = FALSE
    /\ branch' = MASTER
    /\ local_branches' = {MASTER}
    /\ files' = {}
    /\ members' = NONE
    /\ extracted' = {}
    /\ UNCHANGED <<launchpad_vars, other, issues, remote_branches>>

(***************************************************************************)
(* The environment, between two runs.                                      *)
(***************************************************************************)
run_vars == <<pc, status, name_vars, loop_vars, trace, config_failed>>

WorkflowTitles ==
    {NotFoundTitle("foo"), NewVersionTitle("foo", DEFAULT_SERIES_NAME)}

\* The PPA publishes other records of the package.
PublishPatched ==
    /\ pc = "idle"
    /\ \E r \in PatchedRecords \ {patches_archive[DEFAULT_SERIES_NAME]} :
          patches_archive' = [patches_archive EXCEPT ![DEFAULT_SERIES_NAME] = r]
    /\ prev' = NONE
    /\ UNCHANGED <<ubuntu_archive, issues, git_vars, run_vars, other, tar_vars>>

\* A pocket of the Ubuntu archive publishes other records of the package.
PublishUpstream ==
    /\ pc = "idle"
    /\ \E p \in Range(Pockets) :
          \E r \in UpstreamRecords \ {ubuntu_archive[DEFAULT_SERIES_NAME][p]} :
             ubuntu_archive' = [ubuntu_archive EXCEPT ![DEFAULT_SERIES_NAME][p] = r]
    /\ prev' = NONE
    /\ UNCHANGED <<patches_archive, issues, git_vars, run_vars, other, tar_vars>>

\* Somebody closes an open issue.
CloseIssue ==
    /\ pc = "idle"
    /\ \E i \in DOMAIN issues : issues' = RemoveIssue(issues, i)
    /\ prev' = NONE
    /\ UNCHANGED <<rest_vars, git_vars, run_vars>>

\* Another user opens an issue that carries one of the workflow's titles.
OtherUserOpensIssue ==
    /\ pc = "idle"
    /\ Cardinality({i \in DOMAIN issues : i.login = OTHER_USER}) < MaxForeign
    /\ \E t \in WorkflowTitles :
          /\ Issue(t, OTHER_USER) \notin DOMAIN issues
          /\ issues' = AddIssue(issues, Issue(t, OTHER_USER))
    /\ prev' = NONE
    /\ UNCHANGED <<rest_vars, git_vars, run_vars>>

Environment ==
    \/ PublishPatched
    \/ PublishUpstream
    \/ CloseIssue
    \/ OtherUserOpensIssue

\* The statements after the arguments are read.
Steps ==
    \/ InitLaunchpad
    \/ InitGithub
    \/ \E k \in 1..3 : GitConfig(k)
    \/ GetPatchedSources
    \/ NotFoundExists
    \/ NotFoundCreate
    \/ PatchedVersion
    \/ GetUpstreamSources
    \/ NewVersionExists
    \/ NewVersionCreate
    \/ UrlopenDsc
    \/ DownloadFile
    \/ GitFetch
    \/ GitSwitchBase
    \/ GitCheckoutNew
    \/ ExtractArchive
    \/ GitAdd
    \/ GitCommit
    \/ GitPush
    \/ CreatePull
    \/ GitSwitchMaster
    \/ Finish

Run ==
    \/ \E argv \in Argvs : Start(argv)
    \/ Steps

Next == Run \/ Environment

Spec == Init /\ [][Next]_vars

(***************************************************************************)
(* The runs with every shape of the command line: the series given, empty  *)
(* or left out.  Each series has its own records, so that a query of the   *)
(* wrong series shows.                                                     *)
(***************************************************************************)
AllArgvs ==
    {<<SCRIPT>>, <<SCRIPT, "foo">>}
    \cup {<<SCRIPT, "foo", s>> : s \in Series \cup {""}}
    \cup {<<SCRIPT, "foo", s, u>> : s \in Series \cup {""}, u \in Series \cup {""}}

\* Nothing has run yet: no issue is open, the checkout is fresh.
Fresh ==
    /\ issues = EmptyIssues
    /\ branch = MASTER
    /\ local_branches = {MASTER}
    /\ remote_branches = {MASTER} \cup {BaseBranch("foo", s) : s \in Series}
    /\ files = {}
    /\ pc = "idle"
    /\ status = ""
    /\ sys_argv = <<>>
    /\ component_name = ""
    /\ series_name = ""
    /\ upstream_series_name = ""
    /\ patched_version = NONE
    /\ pocket = 0
    /\ pocket_version = NONE
    /\ issue_title = ""
    /\ issue = 0
    /\ filename = NONE
    /\ trace = <<>>
    /\ prev = NONE
    /\ config_failed = FALSE
    /\ members = NONE
    /\ extracted = {}

InitArgs ==
    /\ patches_archive \in [Series -> {<<>>, <<V_2_9>>}]
    /\ ubuntu_archive =
          [s \in Series |-> [p \in Range(Pockets) |->
              IF s = "noble" /\ p = "Release" THEN <<V_2_10>>
              ELSE IF s = "jammy" /\ p = "Security" THEN <<V_E1, V_2_9>>
              ELSE <<>>]]
    /\ Fresh
    /\ other = NONE

NextArgs ==
    \/ \E argv \in AllArgvs : Start(argv)
    \/ Steps

SpecArgs == InitArgs /\ [][NextArgs]_vars

(***************************************************************************)
(* extract_archive on its own: a run has come to line 173 with the issue   *)
(* made, the archive downloaded and the new branch checked out, and the    *)
(* archive is any archive of the model.                                    *)
(***************************************************************************)
AtExtractArchive ==
    /\ patches_archive = [s \in Series |-> IF s = "noble" THEN <<V_2_9>> ELSE <<>>]
    /\ ubuntu_archive =
          [s \in Series |-> [p \in Range(Pockets) |->
              IF s = "noble" /\ p = "Release" THEN <<V_2_10>> ELSE <<>>]]
    /\ issues = AddIssue(EmptyIssues, Issue(NewVersionTitle("foo", "noble"), BOT))
    /\ branch = NewBranch("foo", "noble")
    /\ local_branches = {MASTER, BaseBranch("foo", "noble"), NewBranch("foo", "noble")}
    /\ remote_branches = {MASTER} \cup {BaseBranch("foo", s) : s \in Series}
    /\ files = {Filename("foo", V_2_10)}
    /\ pc = "extract_archive"
    /\ status = "running"
    /\ sys_argv = <<SCRIPT, "foo">>
    /\ component_name = "foo"
    /\ series_name = "noble"
    /\ upstream_series_name = "noble"
    /\ patched_version = V_2_9
    /\ pocket = 1
    /\ pocket_version = V_2_10
    /\ issue_title = NewVersionTitle("foo", "noble")
    /\ issue = 1
    /\ filename = Filename("foo", V_2_10)
    /\ trace =
          <<Call("launchpad", <<"noble", "noble">>),
            Call("github", <<>>),
            Call("git_config", <<1>>),
            Call("git_config", <<2>>),
            Call("git_config", <<3>>),
            Call("get_patched_sources", <<"foo", "noble">>),
            Call("get_patched_sources", <<"foo", "noble">>),
            Call("get_upstream_sources", <<"foo", "noble", "Release">>),
            Call("get_issues", <<NewVersionTitle("foo", "noble"), FALSE>>),
            Call("create_issue", <<NewVersionTitle("foo", "noble"), 1, V_2_10, V_2_9>>),
            Call("urlopen", DscUrl("foo", V_2_10)),
            Call("download_file", PackageUrl("foo", V_2_10, Filename("foo", V_2_10))),
            Call("git_fetch", <<0>>),
            Call("git_switch", <<BaseBranch("foo", "noble"), 0>>),
            Call("git_checkout_b", <<NewBranch("foo", "noble"), 0>>)>>
    /\ prev = NONE
    /\ config_failed = FALSE
    /\ extracted = {}
    /\ other = NONE

InitExtract ==
    /\ AtExtractArchive
    /\ members \in Archives

NextExtract == ExtractArchive

SpecExtract == InitExtract /\ [][NextExtract]_vars

(***************************************************************************)
(* The comparison over more versions: the PPA holds one version or none,   *)
(* the Release pocket another, for every pair of them.                     *)
(***************************************************************************)
V_123_1 == <<"1", ".", "2", ".", "3", "-", "1">>
V_123_2 == <<"1", ".", "2", ".", "3", "-", "2">>
V_10rc1 == <<"1", ".", "0", "~", "r", "c", "1">>
V_10 == <<"1", ".", "0">>
ComparedVersions == {V_10rc1, V_10, V_123_1, V_123_2, V_2_9, V_2_10, V_E1}

InitVersions ==
    /\ patches_archive \in
          {[s \in Series |-> IF s = DEFAULT_SERIES_NAME THEN r ELSE <<>>] :
              r \in {<<>>} \cup {<<v>> : v \in ComparedVersions}}
    /\ ubuntu_archive \in
          {[s \in Series |-> [p \in Range(Pockets) |->
               IF s = DEFAULT_SERIES_NAME /\ p = "Release" THEN <<v>> ELSE <<>>]] :
              v \in ComparedVersions}
    /\ Fresh
    /\ other = NONE

NextVersions == Run

SpecVersions == InitVersions /\ [][NextVersions]_vars

(***************************************************************************)
(* Two jobs for the same package at the same time, each on a runner of its *)
(* own with a checkout of its own; GitHub, origin and Launchpad are the    *)
(* same for both.  The variables of the run are those of the job that      *)
(* takes the next step, the other job waits in `other`; any statement of   *)
(* one job may come between two statements of the other.                   *)
(***************************************************************************)
Job ==
    [pc |-> pc, status |-> status, sys_argv |-> sys_argv,
     component_name |-> component_name, series_name |-> series_name,
     upstream_series_name |-> upstream_series_name,
     patched_version |-> patched_version, pocket |-> pocket,
     pocket_version |-> pocket_version, issue_title |-> issue_title,
     issue |-> issue, filename |-> filename, trace |-> trace,
     config_failed |-> config_failed, branch |-> branch,
     local_branches |-> local_branches, files |-> files, members |-> members,
     extracted |-> extracted]

IdleJob ==
    [pc |-> "idle", status |-> "", sys_argv |-> <<>>, component_name |-> "",
     series_name |-> "", upstream_series_name |-> "", patched_version |-> NONE,
     pocket |-> 0, pocket_version |-> NONE, issue_title |-> "", issue |-> 0,
     filename |-> NONE, trace |-> <<>>, config_failed |-> FALSE, branch |-> MASTER,
     local_branches |-> {MASTER}, files |-> {}, members |-> NONE, extracted |-> {}]

\* The other job takes the next step.
Switch ==
    /\ other # NONE
    /\ other # Job
    /\ other' = Job
    /\ pc' = other.pc
    /\ status' = other.status
    /\ sys_argv' = other.sys_argv
    /\ component_name' = other.component_name
    /\ series_name' = other.series_name
    /\ upstream_series_name' = other.upstream_series_name
    /\ patched_version' = other.patched_version
    /\ pocket' = other.pocket
    /\ pocket_version' = other.pocket_version
    /\ issue_title' = other.issue_title
    /\ issue' = other.issue
    /\ filename' = other.filename
    /\ trace' = other.trace
    /\ config_failed' = other.config_failed
    /\ branch' = other.branch
    /\ local_branches' = other.local_branches
    /\ files' = other.files
    /\ members' = other.members
    /\ extracted' = other.extracted
    /\ UNCHANGED <<launchpad_vars, issues, remote_branches, prev>>

InitConcurrent ==
    /\ patches_archive \in
          {[s \in Series |-> IF s = DEFAULT_SERIES_NAME THEN r ELSE <<>>] :
              r \in {<<>>, <<V_2_9>>}}
    /\ ubuntu_archive =
          [s \in Series |-> [p \in Range(Pockets) |->
              IF s = DEFAULT_SERIES_NAME /\ p = "Release" THEN <<V_2_10>> ELSE <<>>]]
    /\ Fresh
    /\ other = IdleJob

NextConcurrent == Run \/ Switch

SpecConcurrent == InitConcurrent /\ [][NextConcurrent]_vars

(***************************************************************************)
(* Reading a run off the state.                                            *)
(***************************************************************************)
\* A run is under way or has just ended, and it had its package name.
InRun == pc # "idle" /\ ~MissingPackageName(sys_argv)

Events(op) == {i \in 1..Len(trace) : trace[i].op = op}
Happened(op) == Events(op) # {}

\* The calls that change GitHub, origin or the checkout, attempts included.
UpdateOps ==
    {"urlopen", "download_file", "git_fetch", "git_switch", "git_checkout_b",
     "extract_archive", "git_add", "git_commit", "git_push", "create_pull"}
EffectOps == UpdateOps \cup {"create_issue"}

\* What the archives hold for the series of the run.
PatchedNow == patches_archive[series_name]
UpstreamNow(p) == ubuntu_archive[upstream_series_name][p]
\* The ordering of the versions of the model, worked out once.
VersionOrder == [a \in Versions |-> [b \in Versions |-> version_compare(a, b)]]
Greater(a, b) == VersionOrder[a][b] > 0
NewerPockets ==
    {k \in 1..3 : /\ UpstreamNow(Pockets[k]) # <<>>
                  /\ PatchedNow # <<>>
                  /\ Greater(UpstreamNow(Pockets[k])[1], PatchedNow[1])}
NonEmptyPockets == {k \in 1..3 : UpstreamNow(Pockets[k]) # <<>>}
Min(S) == CHOOSE k \in S : \A m \in S : k <= m

\* The version an event of the update names.
NamedVersions ==
    {trace[i].args[3] : i \in {j \in Events("create_issue") : Len(trace[j].args) = 4}}
    \cup {trace[i].args.version : i \in Events("create_pull")}
    \cup {Drop(trace[i].args[1], 3) : i \in Events("git_commit")}

\* Open issues of the bot with this title, now and when the run started.
BotOpen(title) == Count(issues, Issue(title, BOT))
CreatedInRun(title) ==
    Cardinality({i \in Events("create_issue") : trace[i].args[1] = title})
BotOpenAtStart(title) == BotOpen(title) - CreatedInRun(title)

(***************************************************************************)
(* C1: an issue of the new-version kind, a commit and a pull request name  *)
(* only a pocket version strictly greater than the patched version, and a  *)
(* run in which no pocket holds a greater version (the version is less, or *)
(* equal) makes no issue, download, branch, commit, push or pull request.  *)
(***************************************************************************)
C1_OnlyForGreater ==
    InRun =>
       /\ \A v \in NamedVersions :
             /\ PatchedNow # <<>>
             /\ Greater(v, PatchedNow[1])
             /\ \E k \in 1..3 : UpstreamNow(Pockets[k]) # <<>>
                                /\ UpstreamNow(Pockets[k])[1] = v
       /\ (PatchedNow # <<>> /\ NewerPockets = {}) => Ops(trace) \cap EffectOps = {}

\* A finished run that passed over a pocket whose version equals the patched
\* one and opened the pull request for a later pocket.
C1_Witness ==
    /\ InRun
    /\ pc = "exit"
    /\ status = "ok"
    /\ Happened("create_pull")
    /\ \E k \in NonEmptyPockets : UpstreamNow(Pockets[k])[1] = PatchedNow[1]

(***************************************************************************)
(* C2: over any sequence of runs, one after the other, the tracker never   *)
(* holds two open issues of the bot with the same title, for either title: *)
(* a step adds an issue of the bot only for a title that no open issue of  *)
(* the bot carries.                                                        *)
(***************************************************************************)
C2_NoTwoOpen == \A i \in DOMAIN issues : i.login = BOT => issues[i] <= 1

C2_CreatedOnlyWhenAbsent ==
    \A t \in WorkflowTitles :
       Count(issues', Issue(t, BOT)) > Count(issues, Issue(t, BOT)) =>
          Count(issues, Issue(t, BOT)) = 0

C2_NoDuplicateIssue == []C2_NoTwoOpen /\ [][C2_CreatedOnlyWhenAbsent]_vars

\* A run found the open issue of an earlier run and left it alone, while an
\* issue of another user with a workflow title is open too.
C2_Witness ==
    /\ InRun
    /\ \E i \in Events("get_issues") :
          /\ trace[i].args[2] = TRUE
          /\ BotOpen(trace[i].args[1]) = 1
    /\ \E t \in WorkflowTitles : Count(issues, Issue(t, OTHER_USER)) > 0
    /\ ~Happened("create_issue")

(***************************************************************************)
(* C3 as claimed: the pockets are queried in the order Release, Security,  *)
(* Updates; once a pocket has returned a record no later pocket is queried *)
(* in that run; and the Updates record is used when it is the only one.    *)
(***************************************************************************)
IsPocketQuery(e) == e.op = "get_upstream_sources"
QueriedPockets ==
    LET queries == SelectSeq(trace, IsPocketQuery)
    IN  [i \in 1..Len(queries) |-> queries[i].args[3]]

C3_InOrder == QueriedPockets = SubSeq(Pockets, 1, Len(QueriedPockets))

C3_UpdatesUsed ==
    (/\ UpstreamNow("Release") = <<>>
     /\ UpstreamNow("Security") = <<>>
     /\ UpstreamNow("Updates") # <<>>
     /\ Len(QueriedPockets) = 3) => pocket_version = UpstreamNow("Updates")[1]

C3_FirstRecordEndsLoop ==
    InRun =>
       /\ C3_InOrder
       /\ C3_UpdatesUsed
       /\ \A k \in 1..Len(QueriedPockets) :
             UpstreamNow(Pockets[k]) # <<>> => Len(QueriedPockets) = k

(***************************************************************************)
(* C3 as the code has it: the pockets are queried in the order Release,    *)
(* Security, Updates and a record does not end the loop: a run that gets   *)
(* through the loop has queried all three pockets whatever they returned;  *)
(* the Updates record is used when it is the only one.                     *)
(***************************************************************************)
C3_AllPocketsQueried ==
    InRun =>
       /\ C3_InOrder
       /\ C3_UpdatesUsed
       /\ (pc = "exit" /\ status = "ok" /\ PatchedNow # <<>>) => QueriedPockets = Pockets

\* A finished run whose Release pocket returned a record and that went on to
\* query Security and Updates.
C3_Witness ==
    /\ InRun
    /\ pc = "exit"
    /\ status = "ok"
    /\ UpstreamNow("Release") # <<>>
    /\ QueriedPockets = Pockets

(***************************************************************************)
(* C4 as claimed: only the first non-empty pocket counts: every version    *)
(* the issue, the commit and the pull request name is the first record of  *)
(* that pocket, and when its version is not greater than the patched one   *)
(* the run makes nothing, whatever a later pocket holds.                   *)
(***************************************************************************)
C4_FirstNonEmptyOnly ==
    (InRun /\ PatchedNow # <<>>) =>
       /\ \A v \in NamedVersions :
             /\ NonEmptyPockets # {}
             /\ v = UpstreamNow(Pockets[Min(NonEmptyPockets)])[1]
       /\ (/\ NonEmptyPockets # {}
           /\ Min(NonEmptyPockets) \notin NewerPockets) => Ops(trace) \cap EffectOps = {}

(***************************************************************************)
(* C4 as the code has it: at most one pocket sets off the update in a run, *)
(* the first one in the order Release, Security, Updates whose first       *)
(* record is strictly greater than the patched version: the issue, the     *)
(* commit and the pull request name that record and each is made at most   *)
(* once; the pockets before it may hold records that are not greater.      *)
(***************************************************************************)
C4_FirstNewerOnly ==
    (InRun /\ PatchedNow # <<>>) =>
       /\ \A v \in NamedVersions :
             /\ NewerPockets # {}
             /\ v = UpstreamNow(Pockets[Min(NewerPockets)])[1]
       /\ Cardinality(Events("create_issue")) <= 1
       /\ Cardinality(Events("git_commit")) <= 1
       /\ Cardinality(Events("create_pull")) <= 1
       /\ (Happened("create_issue") /\ pocket_version # NONE) => patched_version = PatchedNow[1]

\* A finished run whose first non-empty pocket is not newer than the patched
\* version and that opened the pull request for a later pocket.
C4_Witness ==
    /\ InRun
    /\ pc = "exit"
    /\ status = "ok"
    /\ PatchedNow # <<>>
    /\ NonEmptyPockets # {}
    /\ Min(NonEmptyPockets) \notin NewerPockets
    /\ Happened("create_pull")

(***************************************************************************)
(* C5 as claimed: a run that found the patched package and a strictly      *)
(* greater upstream version, and in which no call failed, has made both    *)
(* the new-version issue and the pull request when it ends.                *)
(***************************************************************************)
NoCallFailed == status = "ok" /\ ~config_failed

C5_AlwaysCreates ==
    (InRun /\ pc = "exit" /\ NoCallFailed /\ NewerPockets # {}) =>
       Happened("create_issue") /\ Happened("create_pull")

(***************************************************************************)
(* C5 as the code has it: such a run has made both the new-version issue   *)
(* and the pull request when it ends, provided no open issue of the bot    *)
(* with the new-version title was there when the run looked.               *)
(***************************************************************************)
C5_CreatesUnlessTracked ==
    (/\ InRun
     /\ pc = "exit"
     /\ NoCallFailed
     /\ NewerPockets # {}
     /\ BotOpenAtStart(NewVersionTitle(component_name, upstream_series_name)) = 0) =>
       /\ Happened("create_issue")
       /\ Happened("create_pull")
       /\ BotOpen(NewVersionTitle(component_name, upstream_series_name)) = 1

\* A run in which no call failed ends with the issue and the pull request.
C5_Witness ==
    /\ InRun
    /\ pc = "exit"
    /\ NoCallFailed
    /\ NewerPockets # {}
    /\ Happened("create_issue")
    /\ Happened("create_pull")

(***************************************************************************)
(* C6: a run that follows a run for the same package and series that ended *)
(* without failure, with the archives and the open issues unchanged in     *)
(* between, makes no issue, no pull request, no download, no branch, no    *)
(* commit and no push, whichever path the first run took.                  *)
(***************************************************************************)
FollowsSameRun ==
    /\ InRun
    /\ prev = <<component_name, series_name, upstream_series_name>>

C6_SecondRunIdle == FollowsSameRun => Ops(trace) \cap EffectOps = {}

\* The second of two runs has ended; the first one had opened the issue for
\* the newer upstream version that the second one found.
C6_Witness ==
    /\ FollowsSameRun
    /\ pc = "exit"
    /\ status = "ok"
    /\ NewerPockets # {}
    /\ \E i \in Events("get_issues") : trace[i].args[2] = TRUE

(***************************************************************************)
(* C7: when the PPA returns no record of the package, the run makes the    *)
(* not-found issue exactly when no open issue of the bot carries that      *)
(* title, so that one is open afterwards, and ends with exit status 0      *)
(* unless a call raised; it queries no pocket and makes no download, git   *)
(* command or pull request.                                                *)
(***************************************************************************)
NotFoundOps ==
    {"launchpad", "github", "git_config", "get_patched_sources", "get_issues",
     "create_issue", "raise"}

C7_NotFoundPath ==
    (InRun /\ PatchedNow = <<>>) =>
       LET title == "Package " \o component_name \o " not found in os-patches PPA"
       IN  /\ Ops(trace) \subseteq NotFoundOps
           /\ \A i \in Events("create_issue") : trace[i].args[1] = title
           /\ CreatedInRun(title) <= 1
           /\ CreatedInRun(title) = 1 => BotOpenAtStart(title) = 0
           /\ pc = "exit" =>
                 \/ /\ status = "ok"
                    /\ BotOpen(title) = 1
                    /\ CreatedInRun(title) = 1 <=> BotOpenAtStart(title) = 0
                 \/ /\ status = "error"
                    /\ trace[Len(trace)].op = "raise"

\* A run made the not-found issue although another user's issue with the
\* same title was open.
C7_Witness ==
    /\ InRun
    /\ PatchedNow = <<>>
    /\ pc = "exit"
    /\ status = "ok"
    /\ CreatedInRun(NotFoundTitle(component_name)) = 1
    /\ Count(issues, Issue(NotFoundTitle(component_name), OTHER_USER)) = 1

(***************************************************************************)
(* C8: in a run that opens a pull request, the calls from the creation of  *)
(* the issue to the pull request are exactly: issue; .dsc fetched; archive *)
(* downloaded; git fetch; switch to <package>-<series>; checkout -b        *)
(* bot/update/<package>-<series>; archive unpacked and its file removed;   *)
(* git add; commit "Update to <package> <version>"; push of the new        *)
(* branch; pull request from the new branch onto the base branch, naming   *)
(* the issue of this run; then switch to master.  Each of them returned    *)
(* without failure, the branch is on origin when the pull request is       *)
(* opened, and a run that ends without failure ends on master.             *)
(***************************************************************************)
UpdateCalls(c, us, v, patched, n) ==
    <<Call("create_issue", <<"New version of " \o c \o " available [" \o us \o "]", n, v, patched>>),
      Call("urlopen", <<"/+files/", c, "_">> \o v \o <<".dsc">>),
      Call("download_file", PackageUrl(c, v, Filename(c, v))),
      Call("git_fetch", <<0>>),
      Call("git_switch", <<c \o "-" \o us, 0>>),
      Call("git_checkout_b", <<"bot/update/" \o c \o "-" \o us, 0>>),
      Call("extract_archive", Filename(c, v)),
      Call("git_add", <<0>>),
      Call("git_commit", <<<<"Update to ", c, " ">> \o v, 0>>),
      Call("git_push", <<"bot/update/" \o c \o "-" \o us, 0>>),
      Call("create_pull", [base |-> c \o "-" \o us, head |-> "bot/update/" \o c \o "-" \o us,
                           version |-> v, fixes |-> n]),
      Call("git_switch", <<"master", 0>>)>>

C8_UpdateOrder ==
    InRun =>
       \A i \in Events("create_pull") :
          LET calls == UpdateCalls(component_name, upstream_series_name,
                                   trace[i].args.version, PatchedNow[1], trace[i].args.fixes)
          IN  /\ i >= 11
              /\ SubSeq(trace, i - 10, i) = SubSeq(calls, 1, 11)
              /\ Ops(SubSeq(trace, 1, i - 11)) \cap EffectOps = {}
              /\ "bot/update/" \o component_name \o "-" \o upstream_series_name
                    \in remote_branches
              /\ Filename(component_name, trace[i].args.version) \notin files
              /\ pc \notin {"git_switch_master", "exit"} => trace[i + 1] = calls[12]
              /\ (pc = "exit" /\ status = "ok") => trace[i + 1] = calls[12] /\ branch = "master"
              /\ pc = "git_switch_master" => branch = calls[11].args.head

\* A run that opened the pull request has ended without failure.
C8_Witness ==
    /\ InRun
    /\ pc = "exit"
    /\ status = "ok"
    /\ Happened("create_pull")
    /\ branch = MASTER
    /\ NewBranch(component_name, upstream_series_name) \in remote_branches

(***************************************************************************)
(* C9: a call that fails, other than a git config command, ends the run at *)
(* that call with a failure exit: it is the last call of the run, nothing  *)
(* is retried, the step that fails changes neither GitHub nor origin nor   *)
(* the checkout, so what the run made before stays and the checkout stays  *)
(* on the branch of the last git command that succeeded.  A git config     *)
(* command that fails never ends the run.                                  *)
(***************************************************************************)
GitOps == {"git_fetch", "git_switch", "git_checkout_b", "git_add", "git_commit", "git_push"}
FailedCall(e) ==
    \/ e.op = "raise"
    \/ e.op \in GitOps /\ e.args[Len(e.args)] # 0

\* The branch the git commands of the run that succeeded leave the checkout on.
Moves == {i \in Events("git_switch") \cup Events("git_checkout_b") : trace[i].args[2] = 0}
Max(S) == CHOOSE k \in S : \A m \in S : k >= m
BranchLeft == IF Moves = {} THEN "master" ELSE trace[Max(Moves)].args[1]

C9_FailureIsLast ==
    /\ \A i \in 1..Len(trace) :
          FailedCall(trace[i]) => i = Len(trace) /\ pc = "exit" /\ status = "error"
    /\ status = "error" => trace # <<>> /\ FailedCall(trace[Len(trace)])
    /\ pc # "idle" => branch = BranchLeft
    /\ \A i \in Events("create_issue") : BotOpen(trace[i].args[1]) >= 1
    /\ \A i \in Events("git_checkout_b") :
          trace[i].args[2] = 0 => trace[i].args[1] \in local_branches
    /\ \A i \in Events("git_push") :
          trace[i].args[2] = 0 => trace[i].args[1] \in remote_branches

C9_FailingStep ==
    /\ (status' = "error" /\ status # "error") =>
          /\ pc' = "exit"
          /\ UNCHANGED <<launchpad_vars, issues, git_vars>>
    /\ pc \in {"git_config_1", "git_config_2", "git_config_3"} =>
          /\ status' = status
          /\ pc' \in {"git_config_2", "git_config_3", "get_patched_sources"}
    /\ (pc = "exit" /\ status = "error") => pc' = "idle"

C9_AbortOnFailure == []C9_FailureIsLast /\ [][C9_FailingStep]_vars

\* The push failed in a run in which a git config command had failed: the
\* run is over, the issue is open and the checkout is on the new branch.
C9_Witness ==
    /\ InRun
    /\ pc = "exit"
    /\ status = "error"
    /\ config_failed
    /\ trace[Len(trace)].op = "git_push"
    /\ Happened("create_issue")
    /\ branch = NewBranch(component_name, upstream_series_name)
    /\ NewBranch(component_name, upstream_series_name) \notin remote_branches

(***************************************************************************)
(* C10: a run without a package name fails at once with the usage error:   *)
(* it makes no call to Launchpad, GitHub or git and changes nothing.       *)
(***************************************************************************)
C10_UsageError ==
    (pc # "idle" /\ Len(sys_argv) < 2) =>
       /\ pc = "exit"
       /\ status = "error"
       /\ trace = <<Call("raise", <<"argv">>)>>
       /\ <<branch, local_branches, files>> = <<"master", {"master"}, {}>>
       /\ ~config_failed

\* The run that was started with the script name alone has ended.
C10_Witness ==
    /\ pc = "exit"
    /\ sys_argv = <<SCRIPT>>
    /\ status = "error"

(***************************************************************************)
(* C11: the target series is "noble" when the second argument is left out  *)
(* or empty and the argument otherwise; the upstream series is the target  *)
(* series so resolved when the third argument is left out or empty and the *)
(* argument otherwise.  The PPA is asked for the target series; the pockets *)
(* are asked for the upstream series, both branches and the title of the   *)
(* new-version issue carry the upstream series.                            *)
(***************************************************************************)
Given(argv, k) == Len(argv) >= k + 1 /\ argv[k + 1] # ""
TargetOf(argv) == IF Given(argv, 2) THEN argv[3] ELSE "noble"
UpstreamOf(argv) == IF Given(argv, 3) THEN argv[4] ELSE TargetOf(argv)

C11_SeriesResolved ==
    InRun =>
       LET target == TargetOf(sys_argv)
           up == UpstreamOf(sys_argv)
       IN  /\ component_name = sys_argv[2]
           /\ series_name = target
           /\ upstream_series_name = up
           /\ \A i \in Events("launchpad") : trace[i].args = <<target, up>>
           /\ \A i \in Events("get_patched_sources") : trace[i].args = <<"foo", target>>
           /\ patched_version # NONE => patched_version = patches_archive[target][1]
           /\ \A i \in Events("get_upstream_sources") : trace[i].args[2] = up
           /\ pocket_version # NONE =>
                 \E k \in 1..3 : /\ ubuntu_archive[up][Pockets[k]] # <<>>
                                 /\ pocket_version = ubuntu_archive[up][Pockets[k]][1]
           /\ \A i \in Events("create_issue") :
                 Len(trace[i].args) = 4 =>
                    trace[i].args[1] = "New version of foo available [" \o up \o "]"
           /\ \A i \in Events("git_switch") :
                 trace[i].args[1] \in {"master", "foo-" \o up}
           /\ \A i \in Events("git_checkout_b") \cup Events("git_push") :
                 trace[i].args[1] = "bot/update/foo-" \o up
           /\ \A i \in Events("create_pull") :
                 /\ trace[i].args.base = "foo-" \o up
                 /\ trace[i].args.head = "bot/update/foo-" \o up

\* A run with an empty target series and the upstream series jammy read the
\* PPA for noble and opened the pull request onto foo-jammy.
C11_Witness ==
    /\ pc = "exit"
    /\ status = "ok"
    /\ sys_argv = <<SCRIPT, "foo", "", "jammy">>
    /\ series_name = "noble"
    /\ \E i \in Events("create_pull") : trace[i].args.base = "foo-jammy"

(***************************************************************************)
(* C12: when the PPA holds the package and the three pockets return no     *)
(* record, the run makes no issue, no download, no branch, commit or push  *)
(* and no pull request, asks no pocket twice, and ends without error after *)
(* the third pocket unless a call to Launchpad or GitHub raised.           *)
(***************************************************************************)
C12_NoUpstreamNoAction ==
    (InRun /\ PatchedNow # <<>> /\ NonEmptyPockets = {}) =>
       /\ Ops(trace) \cap EffectOps = {}
       /\ ~Happened("get_issues")
       /\ <<branch, local_branches, files, extracted>> = <<"master", {"master"}, {}, {}>>
       /\ C3_InOrder
       /\ status = "error" => trace[Len(trace)].op = "raise"
       /\ QueriedPockets = Pockets => pc = "exit"
       /\ (pc = "exit" /\ status = "ok") => QueriedPockets = Pockets

\* The run asked the three pockets, got nothing and ended without error.
C12_Witness ==
    /\ InRun
    /\ PatchedNow # <<>>
    /\ NonEmptyPockets = {}
    /\ pc = "exit"
    /\ status = "ok"
    /\ QueriedPockets = Pockets

(***************************************************************************)
(* C13: once extract_archive has returned, for an archive whose members    *)
(* all lie under its one top-level directory d, every member d/x has been  *)
(* written at x and nowhere else (d/b/c at b/c); for an archive with two   *)
(* or more top-level directories every member has been written under its   *)
(* own name; and the archive file is gone from the working directory.      *)
(***************************************************************************)
TopLevelNames ==
    {m.name : m \in {x \in Range(members) : x.isdir /\ "/" \notin Range(x.name)}}
Under(d, name) ==
    Len(name) > Len(d) + 1 /\ SubSeq(name, 1, Len(d) + 1) = d \o <<"/">>
Below(d, name) == SubSeq(name, Len(d) + 2, Len(name))
WrittenFrom(name) == {e.path : e \in {x \in extracted : x.member = name}}
HasExtracted == pc = "git_add" /\ trace[Len(trace)].op = "extract_archive"

C16_EveryMemberOnlyPrefixCut ==
    HasExtracted =>
       \A d \in TopLevelNames :
          TopLevelNames = {d} =>
             \A m \in Range(members) :
                WrittenFrom(m.name) =
                   {IF Under(d, m.name) THEN Below(d, m.name)
                    ELSE IF m.name = d THEN <<>>
                    ELSE m.name}

(***************************************************************************)
(* C14: nothing orders the statements of two jobs for the same package     *)
(* that run at the same time.  Each job looks at the open issues and then  *)
(* makes its issue in a later step; a job that saw no issue makes one      *)
(* whatever the other job has made since, so that up to two open issues of *)
(* the bot carry the same title; and each job creates the branch           *)
(* bot/update/<package>-<series> in its checkout and pushes it to origin   *)
(* whether or not the other job has pushed it.  The witness is the run in  *)
(* which both happen.                                                      *)
(***************************************************************************)
JobTraces == {trace, other.trace}
CheckedThenCreated(t) ==
    \A i \in 1..Len(t) :
       t[i].op = "create_issue" =>
          i > 1 /\ t[i - 1] = Call("get_issues", <<t[i].args[1], FALSE>>)

C14_TwoJobs ==
    /\ \A title \in WorkflowTitles : BotOpen(title) <= 2
    /\ \A t \in JobTraces : CheckedThenCreated(t)

\* A step of the job that is running, not the change to the other job.
C14_CreatesWhateverIsOpen ==
    (other' = other /\ status' # "error") =>
       /\ pc \in {"new_version_create", "not_found_create"} =>
             issues' = AddIssue(issues, Issue(issue_title, BOT))
       /\ pc = "git_checkout_new" =>
             branch' = "bot/update/" \o component_name \o "-" \o upstream_series_name
       /\ pc = "git_push" =>
             "bot/update/" \o component_name \o "-" \o upstream_series_name
                \in remote_branches'

C14_Unguarded == []C14_TwoJobs /\ [][C14_CreatesWhateverIsOpen]_vars

\* Both jobs saw no open issue, both made the issue, both created the branch
\* and pushed it: two open issues of the bot carry the new-version title.
C14_Witness ==
    /\ BotOpen(NewVersionTitle("foo", "noble")) = 2
    /\ \A t \in JobTraces :
          /\ \E i \in 1..Len(t) :
                t[i] = Call("get_issues", <<NewVersionTitle("foo", "noble"), FALSE>>)
          /\ \E i \in 1..Len(t) :
                t[i] = Call("git_checkout_b", <<NewBranch("foo", "noble"), 0>>)
          /\ \E i \in 1..Len(t) :
                t[i].op = "git_push" /\ t[i].args[1] = NewBranch("foo", "noble")
    /\ trace # other.trace

(***************************************************************************)
(* C15: the versions are ordered as package versions, not as strings: the  *)
(* order is total, with 1.0~rc1 < 1.0 < 1.2.3-1 < 1.2.3-2 < 2.9-1 < 2.10-1 *)
(* < 1:0.1-1 ('~' lowest, the revision counts, digit runs by value, the    *)
(* epoch first), and a run acts exactly on a pocket version that is        *)
(* strictly greater than the patched one in this order.                    *)
(***************************************************************************)
Ascending == <<V_10rc1, V_10, V_123_1, V_123_2, V_2_9, V_2_10, V_E1>>
Place(v) == CHOOSE i \in 1..Len(Ascending) : Ascending[i] = v

C15_Order ==
    \A i, j \in 1..Len(Ascending) :
       version_compare(Ascending[i], Ascending[j]) =
          (IF i < j THEN -1 ELSE IF i > j THEN 1 ELSE 0)

C15_PackageVersionOrder ==
    /\ C15_Order
    /\ (InRun /\ PatchedNow # <<>>) =>
          /\ Ops(trace) \cap EffectOps # {} =>
                Place(UpstreamNow("Release")[1]) > Place(PatchedNow[1])
          /\ (/\ pc = "exit"
              /\ NoCallFailed
              /\ BotOpenAtStart("New version of foo available [noble]") = 0
              /\ Place(UpstreamNow("Release")[1]) > Place(PatchedNow[1])) =>
                Happened("create_pull")

\* The PPA holds 1.0~rc1, the Release pocket 1.0, and the run has opened the
\* pull request.
C15_Witness ==
    /\ InRun
    /\ pc = "exit"
    /\ status = "ok"
    /\ PatchedNow = <<V_10rc1>>
    /\ UpstreamNow("Release") = <<V_10>>
    /\ Happened("create_pull")

(***************************************************************************)
(* C17: the download, the branch, the commit, the push and the pull        *)
(* request are made only by a run that has itself made the new-version     *)
(* issue first.  A run that finds an open new-version issue of the bot     *)
(* when it looks, such as the one a run left that failed before its pull   *)
(* request, makes none of them and no issue: no pull request is opened for *)
(* that update while the issue stays open.                                 *)
(***************************************************************************)
NewVersionIssues == {i \in Events("create_issue") : Len(trace[i].args) = 4}
UpdateEvents == {i \in 1..Len(trace) : trace[i].op \in UpdateOps}

\* The calls of the run that look at the open issues or change something.
IsEffect(e) == e.op \in EffectOps
IsCheckOrEffect(e) == e.op \in EffectOps \cup {"get_issues"}
EffectCalls == SelectSeq(trace, IsEffect)
CheckAndEffectCalls == SelectSeq(trace, IsCheckOrEffect)
IsNewVersionIssue(calls) ==
    /\ calls # <<>>
    /\ calls[1].op = "create_issue"
    /\ Len(calls[1].args) = 4

C17_OnlyAfterOwnIssue ==
    InRun =>
       LET calls == EffectCalls
           looks == CheckAndEffectCalls
           own == IsNewVersionIssue(calls)
       IN  /\ \A k \in 1..Len(calls) : calls[k].op \in UpdateOps => k > 1 /\ own
           /\ \A k \in 1..Len(looks) :
                 (looks[k].op = "get_issues" /\ looks[k].args[2] = TRUE) =>
                    \A j \in (k + 1)..Len(looks) : looks[j].op = "get_issues"
           /\ (BotOpen("New version of foo available [noble]") >=
                  (IF own THEN 2 ELSE 1)) =>
                 /\ ~own
                 /\ \A k \in 1..Len(calls) : calls[k].op \notin UpdateOps

\* An earlier run made the issue and failed before it pushed the branch; this
\* run found the issue, did nothing and ended, and the branch is still not on
\* origin.
C17_Witness ==
    /\ InRun
    /\ pc = "exit"
    /\ status = "ok"
    /\ NewerPockets # {}
    /\ BotOpenAtStart(NewVersionTitle(component_name, upstream_series_name)) = 1
    /\ NewBranch(component_name, upstream_series_name) \notin remote_branches
    /\ \E i \in Events("get_issues") : trace[i].args[2] = TRUE
    /\ UpdateEvents = {}

(***************************************************************************)
(* C18: one run makes at most one issue and at most one pull request and   *)
(* goes at most once through download, branch, commit and push, also when  *)
(* two or three pockets hold a version strictly greater than the patched   *)
(* one: the calls of a run that change something are the calls of one      *)
(* update, each once and in their order, or the first of them.             *)
(***************************************************************************)
Times(op) == Cardinality(Events(op))

\* The calls of one update, in the order of lines 142-187.
OneUpdate ==
    <<"create_issue", "urlopen", "download_file", "git_fetch", "git_switch",
      "git_checkout_b", "extract_archive", "git_add", "git_commit", "git_push",
      "create_pull", "git_switch">>

C18_AtMostOnce ==
    InRun =>
       LET calls == EffectCalls
       IN  /\ Len(calls) <= Len(OneUpdate)
           /\ \A k \in 1..Len(calls) : calls[k].op = OneUpdate[k]

\* Two pockets at least hold a greater version; the run made the issue and the
\* pull request for the first, found its own issue for the next, and ended.
C18_Witness ==
    /\ InRun
    /\ pc = "exit"
    /\ status = "ok"
    /\ Cardinality(NewerPockets) >= 2
    /\ Times("create_issue") = 1
    /\ Times("create_pull") = 1
    /\ Times("get_issues") = Cardinality(NewerPockets)

====
